---- MODULE Spec2Model ----
(***************************************************************************)
(* Model of chat-ai-server: the identity store (app/dao/user_dao.py), the  *)
(* token service (app/utils/jwt_util.py), the auth guard and the user      *)
(* endpoints (app/routers/user_router.py) and the chat endpoints with the  *)
(* streaming relay (app/routers/chat_router.py).                           *)
(*                                                                         *)
(* Python strings that the code concatenates or tests for emptiness (chat  *)
(* content) are sequences of characters; "None" stands for Python's None   *)
(* in Optional[str] fields.  Every request handler is an `async def`       *)
(* without an await, so a handler is one atomic action; the streaming      *)
(* generator is suspended at each `yield`, so one action runs it from one  *)
(* suspension to the next.                                                 *)
(***************************************************************************)
EXTENDS Integers, Sequences, FiniteSets, TLC

VARIABLES
    db,           \* user_dao.fake_users_db: username key -> record
    chatHistory,  \* chat_router.chatHistory: username key -> sequence of messages
    issued,       \* the tokens create_access_token has returned so far
    now,          \* the wall clock, in ticks of 1/TicksPerSecond second
    streams,      \* the StreamingResponse generators, by slot
    resp,         \* the response to the last request handled
    appendLog,    \* history: per key, the appends made since the log was created
    nchats,       \* history: the number of chat requests accepted so far
    ncalls,       \* history: the number of upstream completion calls made
    nempty        \* history: the fragments without content delivered, counted
                  \* by the relay specification only

vars == <<db, chatHistory, issued, now, streams, resp, appendLog, nchats, ncalls, nempty>>

----------------------------------------------------------------------------
(* Bounds of the model *)

MaxStreams == 2      \* stream slots
MaxChats == 2        \* chat requests handled in the chat specification
MaxUserChats == 1    \* chat requests handled in the user specification
MaxChunks == 2       \* content-bearing fragments one upstream stream delivers
MaxSkips == 1        \* fragments without content before one with content
MaxTokens == 2       \* tokens issued
MaxTicks == 2        \* clock steps
TickMinutes == 16    \* minutes per clock step
MaxMinutes == 32     \* minutes the token specification runs for
TicksPerSecond == 2  \* clock readings per second

(* Program constants *)

access_token_expire_minutes == 30

\* datetime.now() has fractions of a second (ticks), the exp claim of a token
\* has none
SecondsPerMinute == 60
Minutes(m) == m * SecondsPerMinute * TicksPerSecond

None == "None"

----------------------------------------------------------------------------
(* Value universes of the inputs *)

Usernames == {"root", "alice"}
Passwords == {"root123", "pw"}
Emails == {None, "alice"}    \* an email may be any string, a username too
FullNames == {None, "Fn"}

\* DashScopeConfig.model_name, the default of ChatRequest.model
model_name == "qwen3-max"
Models == {model_name, None}

F1 == <<"H">>
F2 == <<"i">>
Fragments == {F1, F2}
Question == <<"q">>

\* chunks of the upstream stream: kind says what the chunk carries
\*   "nochoices": chunk.choices is empty (the usage chunk)
\*   "none":      choices[0].delta.content is None
\*   "text":      choices[0].delta.content is the string in content
Chunk(kind, content) == [kind |-> kind, content |-> content]
ContentChunks == {Chunk("text", f) : f \in Fragments}
EmptyChunks == {Chunk("nochoices", <<>>), Chunk("none", <<>>), Chunk("text", <<>>)}

\* how the iteration of the upstream stream goes on when no chunk comes
EndOfStream == Chunk("end", <<>>)
UpstreamError == Chunk("raise", <<>>)

ChatMessage(role, content) == [role |-> role, content |-> content]
MessageLists ==
    {<<>>, <<ChatMessage("assistant", Question)>>,
     <<ChatMessage("assistant", F1), ChatMessage("user", Question)>>}

----------------------------------------------------------------------------
(* app/utils/pwd_util.py: the hashing capability *)

get_password_hash(password) == <<"bcrypt", password>>

verify_password(plain_password, hashed_password) ==
    hashed_password = get_password_hash(plain_password)

----------------------------------------------------------------------------
(* app/utils/jwt_util.py: tokens are [sub, exp, sig], exp in whole seconds *)

Token(sub, exp, sig) == [sub |-> sub, exp |-> exp, sig |-> sig]

\* expire = datetime.now(timezone.utc) + expires_delta
ExpireAt(t) == t + Minutes(access_token_expire_minutes)

\* jwt.encode writes a datetime claim as a NumericDate: the whole seconds of
\* the datetime, its fraction dropped
NumericDate(t) == t \div TicksPerSecond

create_access_token(sub, t) == Token(sub, NumericDate(ExpireAt(t)), "ok")

\* jwt.decode (PyJWT 2): the signature must verify, and the token is expired
\* when exp <= now, now being the clock with its fraction
TokenDecodes(token, t) ==
    token.sig = "ok" /\ token.exp * TicksPerSecond > t

decode_token(token) == [sub |-> token.sub]

\* what a client can put in the Authorization header: a token it was issued,
\* a token with a forged signature (or a malformed one: jwt.decode raises the
\* same way), a token signed for a username the store does not have (issued
\* before the process restarted with its initial store), or nothing
ForgedToken == Token("root", 1000000, "bad")
OrphanToken == Token("ghost", 1000000, "ok")
NoToken == Token(None, 0, "missing")
TokenInputs == issued \cup {ForgedToken, OrphanToken, NoToken}

----------------------------------------------------------------------------
(* app/dao/user_dao.py *)

UserInDB(username, email, full_name, hashed_password, disabled) ==
    [username |-> username, email |-> email, full_name |-> full_name,
     hashed_password |-> hashed_password, disabled |-> disabled]

fake_users_db ==
    [k \in {"root"} |->
        UserInDB("root", "root@163.com", "Administrator",
                 get_password_hash("root123"), FALSE)]

\* self.db[key] = record
Store(d, key, record) ==
    [k \in DOMAIN d \cup {key} |-> IF k = key THEN record ELSE d[k]]

\* (a soft-deleted record counts as absent)
HasActiveUser(d, username) == username \in DOMAIN d /\ ~d[username].disabled

\* username in self.db
HasUser(d, username) == username \in DOMAIN d

get_user(d, username) == d[username]

\* the record update_user writes, from the caller's user object
UpdatedRecord(d, user) ==
    LET current_user == get_user(d, user.username)
        c1 == IF user.email # None
              THEN [current_user EXCEPT !.username = user.email]
              ELSE current_user
    IN  IF user.full_name # None
        THEN [c1 EXCEPT !.full_name = user.full_name]
        ELSE c1

update_user(d, user) ==
    LET current_user == UpdatedRecord(d, user)
    IN  Store(d, current_user.username, current_user)

\* (the record is written to a copy of the store)
save_user_to_copy(d, user) == d

save_user(d, user) == Store(d, user.username, user)

\* (the record is removed from the store)
delete_user_hard(d, username) == [k \in DOMAIN d \ {username} |-> d[k]]

delete_user(d, username) ==
    LET current_user == [get_user(d, username) EXCEPT !.disabled = TRUE]
    IN  Store(d, current_user.username, current_user)

list_user(d) == d

\* the User response model: the record without hashed_password
User(record) ==
    [username |-> record.username, email |-> record.email,
     full_name |-> record.full_name, disabled |-> record.disabled]

----------------------------------------------------------------------------
(* app/routers/user_router.py: the auth guard *)

authenticate_user(d, username, password) ==
    /\ HasUser(d, username)
    /\ verify_password(password, get_user(d, username).hashed_password)

\* (the expiry of the token is not looked at)
CurrentUserStatusNoExpiry(token) ==
    IF token.sig # "ok" THEN 401
    ELSE IF decode_token(token).sub = None THEN 401
    ELSE IF ~HasUser(db, decode_token(token).sub) THEN 401
    ELSE 0

\* get_current_user: 0 when it returns the user, else the status it raises
CurrentUserStatus(token) ==
    IF token.sig = "missing" THEN 401
    ELSE IF ~TokenDecodes(token, now) THEN 401
    ELSE IF decode_token(token).sub = None THEN 401
    ELSE IF ~HasUser(db, decode_token(token).sub) THEN 401
    ELSE 0

get_current_user(token) == get_user(db, decode_token(token).sub)

\* (the disabled flag is not looked at)
ActiveUserStatusUnchecked(token) == CurrentUserStatus(token)

\* get_current_active_user, chained after get_current_user
ActiveUserStatus(token) ==
    IF CurrentUserStatus(token) # 0 THEN CurrentUserStatus(token)
    ELSE IF get_current_user(token).disabled THEN 400
    ELSE 0

Response(op, status, body) == [op |-> op, status |-> status, body |-> body]

\* no response is waiting to be sent: the event loop runs one handler to its
\* end and sends its response before it runs the next
NoResponse == Response("none", 0, None)
Idle == resp = NoResponse

----------------------------------------------------------------------------
(* app/routers/user_router.py: the endpoints *)

sign_up(user) ==
    Idle /\ (
    IF HasUser(db, user.username)
    THEN /\ resp' = Response("signup", 400, None)
         /\ UNCHANGED <<db, chatHistory, issued, now, streams, appendLog, nchats, ncalls, nempty>>
    ELSE LET new_user == UserInDB(user.username, user.email, user.full_name,
                                  get_password_hash(user.password), FALSE)
         IN  /\ db' = save_user(db, new_user)
             /\ resp' = Response("signup", 200, User(new_user))
             /\ UNCHANGED <<chatHistory, issued, now, streams, appendLog, nchats, ncalls, nempty>>
    )

\* the token login returns for this username, from the store d at time t
LoginToken(d, t, username) == create_access_token(get_user(d, username).username, t)

login_for_access_token(login_data) ==
    Idle /\ (
    IF ~authenticate_user(db, login_data.username, login_data.password)
    THEN /\ resp' = Response("token", 401, None)
         /\ UNCHANGED <<db, chatHistory, issued, now, streams, appendLog, nchats, ncalls, nempty>>
    ELSE LET access_token == LoginToken(db, now, login_data.username)
         IN  /\ access_token \in issued \/ Cardinality(issued) < MaxTokens
             /\ issued' = issued \cup {access_token}
             /\ resp' = Response("token", 200, access_token)
             /\ UNCHANGED <<db, chatHistory, now, streams, appendLog, nchats, ncalls, nempty>>
    )

\* (logout closes the account)
StoreAfterLogoutDisabled(d, username) == delete_user(d, username)

\* logout only builds its message: the store is not touched
StoreAfterLogout(d, username) == d

logout(token) ==
    Idle /\ (
    /\ resp' = IF ActiveUserStatus(token) # 0
               THEN Response("logout", ActiveUserStatus(token), None)
               ELSE Response("logout", 200, get_current_user(token).username)
    /\ db' = IF ActiveUserStatus(token) # 0 THEN db
             ELSE StoreAfterLogout(db, get_current_user(token).username)
    /\ UNCHANGED <<chatHistory, issued, now, streams, appendLog, nchats, ncalls, nempty>>
    )

get_user_info(token) ==
    Idle /\ (
    /\ resp' = IF ActiveUserStatus(token) # 0
               THEN Response("get", ActiveUserStatus(token), None)
               ELSE Response("get", 200, User(get_current_user(token)))
    /\ UNCHANGED <<db, chatHistory, issued, now, streams, appendLog, nchats, ncalls, nempty>>
    )

update_user_info(token, user_update) ==
    Idle /\ (
    IF ActiveUserStatus(token) # 0
    THEN /\ resp' = Response("update", ActiveUserStatus(token), None)
         /\ UNCHANGED <<db, chatHistory, issued, now, streams, appendLog, nchats, ncalls, nempty>>
    ELSE LET current_user == [get_current_user(token) EXCEPT
                                 !.email = user_update.email,
                                 !.full_name = user_update.full_name]
         IN  /\ db' = update_user(db, current_user)
             /\ resp' = Response("update", 200, User(UpdatedRecord(db, current_user)))
             /\ UNCHANGED <<chatHistory, issued, now, streams, appendLog, nchats, ncalls, nempty>>
    )

delete_user_account(token) ==
    Idle /\ (
    IF ActiveUserStatus(token) # 0
    THEN /\ resp' = Response("del", ActiveUserStatus(token), None)
         /\ UNCHANGED <<db, chatHistory, issued, now, streams, appendLog, nchats, ncalls, nempty>>
    ELSE /\ db' = delete_user(db, get_current_user(token).username)
         /\ resp' = Response("del", 200, get_current_user(token).username)
         /\ UNCHANGED <<chatHistory, issued, now, streams, appendLog, nchats, ncalls, nempty>>
    )

get_all_users(token) ==
    Idle /\ (
    /\ resp' = IF ActiveUserStatus(token) # 0
               THEN Response("all", ActiveUserStatus(token), None)
               ELSE Response("all", 200,
                             [k \in DOMAIN list_user(db) |-> User(list_user(db)[k])])
    /\ UNCHANGED <<db, chatHistory, issued, now, streams, appendLog, nchats, ncalls, nempty>>
    )

----------------------------------------------------------------------------
(* app/routers/chat_router.py: the streaming relay *)

\* one event written to the client: a StreamResponse, or the error object
StreamResponse(content, finished) ==
    [type |-> "data", content |-> content, finished |-> finished]
ErrorResponse == [type |-> "error", content |-> <<>>, finished |-> TRUE]

\* a generator: pc is where it stands
\*   "free"      the slot holds no generator
\*   "pending"   chat returned the StreamingResponse, the body has not started
\*   "emitting"  suspended at the yield of a fragment event
\*   "done"      returned after the stream ended (sentinel sent or not)
\*   "failed"    returned after the error event
\*   "cancelled" closed by the client's disconnect
\* received, up, calls and appended are history: the content-bearing fragments
\* the upstream delivered, how the upstream ended, the number of completion
\* calls made, and whether the generator appended to the log
FreeStream ==
    [pc |-> "free", user |-> None, model |-> None, acc |-> <<>>, events |-> <<>>,
     received |-> <<>>, up |-> "open", calls |-> 0, appended |-> FALSE]

NewStream(username, model) ==
    [FreeStream EXCEPT !.pc = "pending", !.user = username, !.model = model]

\* request.model or config.MODEL_NAME: the configuration object has no
\* attribute MODEL_NAME, so the expression raises when request.model is falsy
ModelNameRaises(model) == model = None

\* (only chunk.choices is looked at)
HasChoices(chunk) == chunk.kind \in {"text", "none"}

\* chunk.choices and chunk.choices[0].delta.content
HasContent(chunk) == chunk.kind = "text" /\ chunk.content # <<>>

\* the body of the for loop, for one chunk
OnChunk(st, chunk) ==
    IF HasContent(chunk)
    THEN [st EXCEPT !.acc = @ \o chunk.content,
                    !.events = Append(@, StreamResponse(chunk.content, FALSE)),
                    !.received = Append(@, chunk.content),
                    !.pc = "emitting"]
    ELSE st

RECURSIVE OnChunks(_, _)
OnChunks(st, chunks) ==
    IF chunks = <<>> THEN st
    ELSE OnChunks(OnChunk(st, Head(chunks)), Tail(chunks))

\* chatHistory[username].append(message); a KeyError when the key is absent
CanAppend(h, username) == username \in DOMAIN h

\* (every key shares one list object)
AppendMessageShared(h, username, message) ==
    [k \in DOMAIN h |-> Append(h[k], message)]

AppendMessage(h, username, message) ==
    [h EXCEPT ![username] = Append(@, message)]

\* the except branch: the error event, and the generator returns
OnException(st) ==
    [st EXCEPT !.events = Append(@, ErrorResponse), !.pc = "failed"]

\* the except branch leaves the log alone
HistoryOnExceptionPartial(h, st) ==
    IF st.acc # <<>> /\ CanAppend(h, st.user)
    THEN AppendMessage(h, st.user, ChatMessage("assistant", st.acc))
    ELSE h

HistoryOnException(h, st) == h

\* (the sentinel is yielded before the append is tried)
OnStreamEndSentinelFirst(st, keyError) ==
    IF st.acc # <<>>
    THEN IF keyError
         THEN OnException([st EXCEPT !.events = Append(@, StreamResponse(<<>>, TRUE))])
         ELSE [st EXCEPT !.events = Append(@, StreamResponse(<<>>, TRUE)),
                         !.appended = TRUE, !.pc = "done"]
    ELSE [st EXCEPT !.pc = "done"]

\* after the loop: the generator's state, given whether the append raised
OnStreamEnd(st, keyError) ==
    IF st.acc # <<>>
    THEN IF keyError
         THEN OnException(st)
         ELSE [st EXCEPT !.events = Append(@, StreamResponse(<<>>, TRUE)),
                         !.appended = TRUE, !.pc = "done"]
    ELSE [st EXCEPT !.pc = "done"]

\* the log after the loop
HistoryOnStreamEnd(h, st) ==
    IF st.acc # <<>> /\ CanAppend(h, st.user)
    THEN AppendMessage(h, st.user, ChatMessage("assistant", st.acc))
    ELSE h

\* The generator runs from its suspension to its next yield or return: the
\* upstream delivers the chunks of `skips` (none with content) and then `last`:
\* a chunk with content, EndOfStream or UpstreamError.  (nempty is left to the
\* specification that takes the step.)
generate_stream_response(s, skips, last) ==
    Idle /\ (
    LET st0 == [streams[s] EXCEPT !.calls =
                   IF streams[s].pc = "pending" /\ ~ModelNameRaises(streams[s].model)
                   THEN @ + 1 ELSE @]
        st1 == OnChunks(st0, skips)
    IN  /\ streams[s].pc \in {"pending", "emitting"}
        /\ last.kind = "text" => Len(streams[s].received) < MaxChunks
        /\ UNCHANGED <<db, issued, now, resp, nchats>>
        /\ ncalls' = ncalls + (st0.calls - streams[s].calls)
        /\ IF streams[s].pc = "pending" /\ ModelNameRaises(streams[s].model)
           THEN \* the arguments of the completion call raise: no call is made
                /\ skips = <<>> /\ last = UpstreamError
                /\ streams' = [streams EXCEPT ![s] = OnException(streams[s])]
                /\ chatHistory' = HistoryOnException(chatHistory, streams[s])
                /\ UNCHANGED appendLog
           ELSE IF last.kind = "text"
           THEN /\ streams' = [streams EXCEPT ![s] = OnChunk(st1, last)]
                /\ UNCHANGED <<chatHistory, appendLog>>
           ELSE IF last.kind = "raise"
           THEN /\ streams' = [streams EXCEPT ![s] = OnException([st1 EXCEPT !.up = "raised"])]
                /\ chatHistory' = HistoryOnException(chatHistory, st1)
                /\ UNCHANGED appendLog
           ELSE /\ streams' = [streams EXCEPT ![s] =
                        OnStreamEnd([st1 EXCEPT !.up = "ended"],
                                    ~CanAppend(chatHistory, st1.user))]
                /\ chatHistory' = HistoryOnStreamEnd(chatHistory, st1)
                /\ appendLog' =
                       IF st1.acc # <<>> /\ st1.user \in DOMAIN chatHistory
                       THEN [appendLog EXCEPT ![st1.user] =
                                Append(@, [msg |-> ChatMessage("assistant", st1.acc),
                                           by |-> "relay"])]
                       ELSE appendLog
    )

\* (closing the generator commits what it has accumulated)
HistoryOnClosePartial(h, st) ==
    IF st.acc # <<>> /\ CanAppend(h, st.user)
    THEN AppendMessage(h, st.user, ChatMessage("assistant", st.acc))
    ELSE h

\* GeneratorExit and CancelledError are not an Exception: the except branch
\* does not run and there is no finally
HistoryOnClose(h, st) == h

\* the client disconnects while the generator is suspended: it is closed there
CancelStream(s) ==
    Idle /\ (
    /\ streams[s].pc \in {"pending", "emitting"}
    /\ streams' = [streams EXCEPT ![s].pc = "cancelled"]
    /\ chatHistory' = HistoryOnClose(chatHistory, streams[s])
    /\ UNCHANGED <<db, issued, now, resp, appendLog, nchats, ncalls, nempty>>
    )

----------------------------------------------------------------------------
(* app/routers/chat_router.py: the endpoints *)

ChatRequest(messages, stream, model) ==
    [messages |-> messages, stream |-> stream, model |-> model]

\* (the list is made anew for every request)
EnsureLogAnew(h, username) == Store(h, username, <<>>)

\* if username not in chatHistory: chatHistory[username] = []
EnsureLog(h, username) ==
    IF username \in DOMAIN h THEN h ELSE Store(h, username, <<>>)

FreeSlots == {s \in 1..MaxStreams : streams[s].pc = "free"}

\* (the turn is taken back when the call fails)
HistoryOnCompletionErrorRolledBack(before, after) == before

\* the except branches of chat raise the HTTPException and leave the log as it
\* is by then, the user turn appended
HistoryOnCompletionError(before, after) == after

\* the detail of the 500 of the non-streaming branch: the HTTPException of
\* the branch without choices, or the one made from any other exception
EmptyCompletionDetail(request, completion) ==
    IF ~ModelNameRaises(request.model) /\ completion.kind = "nochoices"
    THEN "EmptyCompletion"
    ELSE "Error"

\* (a response without choices is taken as one with empty content)
CompletionFailsOnRaiseOnly(request, completion) ==
    ModelNameRaises(request.model) \/ completion.kind = "raise"

\* the non-streaming branch raises: the call's arguments or the call raise, or
\* `response.choices and len(response.choices) > 0` is false
CompletionFails(request, completion) ==
    \/ ModelNameRaises(request.model)
    \/ completion.kind \in {"raise", "nochoices"}

\* `completion` is what client.chat.completions.create does in the
\* non-streaming branch: UpstreamError, or a response whose choices are empty
\* ("nochoices"), whose message content is None ("none") or a string ("text")
chat(token, request, completion, maxChats) ==
    Idle /\ (
    IF ActiveUserStatus(token) # 0
    THEN /\ resp' = Response("chat", ActiveUserStatus(token), None)
         /\ UNCHANGED <<db, chatHistory, issued, now, streams, appendLog, nchats, ncalls, nempty>>
    ELSE
    LET username == get_current_user(token).username
        h1 == EnsureLog(chatHistory, username)
        g1 == IF username \in DOMAIN appendLog THEN appendLog
              ELSE Store(appendLog, username, <<>>)
        last == request.messages[Len(request.messages)]
        user_message == ChatMessage(last.role, last.content)
        h2 == AppendMessage(h1, username, user_message)
        g2 == [g1 EXCEPT ![username] = Append(@, [msg |-> user_message, by |-> "turn"])]
        assistant_message ==
            ChatMessage("assistant",
                        IF completion.kind = "none" THEN <<>> ELSE completion.content)
    IN  /\ nchats < maxChats
        /\ nchats' = nchats + 1
        /\ UNCHANGED <<db, issued, now, nempty>>
        /\ IF request.messages = <<>>
           THEN \* request.messages[-1] raises IndexError
                /\ chatHistory' = h1
                /\ appendLog' = g1
                /\ resp' = Response("chat", 500, None)
                /\ UNCHANGED <<streams, ncalls, nempty>>
           ELSE IF request.stream
           THEN /\ FreeSlots # {}
                /\ chatHistory' = h2
                /\ appendLog' = g2
                /\ streams' = [streams EXCEPT ![CHOOSE s \in FreeSlots :
                                   \A t \in FreeSlots : s <= t] =
                                       NewStream(username, request.model)]
                /\ resp' = Response("chat", 200, None)
                /\ UNCHANGED ncalls
           ELSE IF CompletionFails(request, completion)
           THEN /\ chatHistory' = HistoryOnCompletionError(h1, h2)
                /\ appendLog' = g2
                /\ resp' = Response("chat", 500,
                                    EmptyCompletionDetail(request, completion))
                /\ ncalls' = IF ModelNameRaises(request.model) THEN ncalls ELSE ncalls + 1
                /\ UNCHANGED streams
           ELSE /\ chatHistory' = AppendMessage(h2, username, assistant_message)
                /\ appendLog' = [g2 EXCEPT ![username] =
                       Append(@, [msg |-> assistant_message, by |-> "reply"])]
                /\ resp' = Response("chat", 200, assistant_message)
                /\ ncalls' = ncalls + 1
                /\ UNCHANGED streams
    )

\* both branches of the handler read config.MODEL_NAME, which raises
get_models(token) ==
    Idle /\ (
    /\ resp' = IF ActiveUserStatus(token) # 0
               THEN Response("models", ActiveUserStatus(token), None)
               ELSE Response("models", 500, None)
    /\ UNCHANGED <<db, chatHistory, issued, now, streams, appendLog, nchats, ncalls, nempty>>
    )

\* (the list, newest message first)
HistoryOfReversed(h, username) ==
    IF username \notin DOMAIN h THEN <<>>
    ELSE [i \in 1..Len(h[username]) |->
             ChatMessage(h[username][Len(h[username]) + 1 - i].role,
                         h[username][Len(h[username]) + 1 - i].content)]

\* the list get_user_history returns for this username
HistoryOf(h, username) ==
    IF username \notin DOMAIN h THEN <<>>
    ELSE [i \in 1..Len(h[username]) |->
             ChatMessage(h[username][i].role, h[username][i].content)]

get_user_history(token) ==
    Idle /\ (
    /\ resp' = IF ActiveUserStatus(token) # 0
               THEN Response("history", ActiveUserStatus(token), None)
               ELSE Response("history", 200,
                             HistoryOf(chatHistory, get_current_user(token).username))
    /\ UNCHANGED <<db, chatHistory, issued, now, streams, appendLog, nchats, ncalls, nempty>>
    )

\* del chatHistory[username]
DeleteLog(h, username) == [k \in DOMAIN h \ {username} |-> h[k]]

clear_user_history(token) ==
    Idle /\ (
    IF ActiveUserStatus(token) # 0
    THEN /\ resp' = Response("clear", ActiveUserStatus(token), None)
         /\ UNCHANGED <<db, chatHistory, issued, now, streams, appendLog, nchats, ncalls, nempty>>
    ELSE LET username == get_current_user(token).username
         IN  /\ resp' = Response("clear", 200,
                            IF username \in DOMAIN chatHistory
                            THEN Len(chatHistory[username]) ELSE 0)
             /\ chatHistory' = IF username \in DOMAIN chatHistory
                               THEN DeleteLog(chatHistory, username)
                               ELSE chatHistory
             /\ appendLog' = [k \in DOMAIN appendLog \ {username} |-> appendLog[k]]
             /\ UNCHANGED <<db, issued, now, streams, nchats, ncalls, nempty>>
    )

\* the response of the handler that just ran goes out to the client
SendResponse ==
    /\ ~Idle
    /\ resp' = NoResponse
    /\ UNCHANGED <<db, chatHistory, issued, now, streams, appendLog, nchats, ncalls, nempty>>

\* time passes
Tick ==
    Idle /\ (
    /\ now + Minutes(TickMinutes) <= MaxTicks * Minutes(TickMinutes)
    /\ now' = now + Minutes(TickMinutes)
    /\ UNCHANGED <<db, chatHistory, issued, streams, resp, appendLog, nchats, ncalls, nempty>>
    )

----------------------------------------------------------------------------
(* The specifications *)

Init ==
    /\ db = fake_users_db
    /\ chatHistory = <<>>
    /\ issued = {}
    /\ now = 0
    /\ streams = [s \in 1..MaxStreams |-> FreeStream]
    /\ resp = NoResponse
    /\ appendLog = <<>>
    /\ nchats = 0
    /\ ncalls = 0
    /\ nempty = 0

RECURSIVE SeqsUpTo(_, _)
SeqsUpTo(S, n) ==
    IF n = 0 THEN {<<>>}
    ELSE SeqsUpTo(S, n - 1) \cup
         {Append(q, c) : q \in {r \in SeqsUpTo(S, n - 1) : Len(r) = n - 1}, c \in S}
SkipSeqs == SeqsUpTo(EmptyChunks, MaxSkips)
Completions ==
    {UpstreamError, Chunk("nochoices", <<>>), Chunk("none", <<>>),
     Chunk("text", <<>>), Chunk("text", F1)}

UserSignUp(username, password, email, full_name) ==
    [username |-> username, password |-> password, email |-> email,
     full_name |-> full_name]
LoginRequest(username, password) == [username |-> username, password |-> password]
UserUpdate(email, full_name) == [email |-> email, full_name |-> full_name]

\* The chat pipeline with all its inputs, the identity store with few
ChatTokens == issued \cup {NoToken}

ChatHandlers ==
    \/ sign_up(UserSignUp("alice", "pw", None, None))
    \/ login_for_access_token(LoginRequest("root", "root123"))
    \/ login_for_access_token(LoginRequest("alice", "pw"))
    \/ \E t \in ChatTokens, m \in MessageLists, n \in Models :
          chat(t, ChatRequest(m, TRUE, n), UpstreamError, MaxChats)
    \/ \E t \in ChatTokens, m \in MessageLists, n \in Models, c \in Completions :
          chat(t, ChatRequest(m, FALSE, n), c, MaxChats)
    \/ \E t \in ChatTokens : get_user_history(t)
    \/ \E t \in ChatTokens : clear_user_history(t)
    \/ \E s \in 1..MaxStreams, k \in SkipSeqs,
          l \in ContentChunks \cup {EndOfStream, UpstreamError} :
          generate_stream_response(s, k, l) /\ UNCHANGED nempty
    \/ \E s \in 1..MaxStreams : CancelStream(s)

NextChat ==
    \/ ChatHandlers
    \/ SendResponse

SpecChat == Init /\ [][NextChat]_vars

\* The identity store and the auth guard with all their inputs, the chat
\* pipeline with few
Keys == Usernames \cup (Emails \ {None})

UserChat(token) ==
    \E b \in BOOLEAN :
        chat(token, ChatRequest(<<ChatMessage("user", Question)>>, b, model_name),
             Chunk("text", F1), MaxUserChats)

UserHandlers ==
    \/ \E u \in Usernames, p \in Passwords, e \in Emails :
          sign_up(UserSignUp(u, p, e, None))
    \/ \E u \in Keys, p \in Passwords : login_for_access_token(LoginRequest(u, p))
    \/ \E t \in TokenInputs : logout(t)
    \/ \E t \in TokenInputs : get_user_info(t)
    \/ \E t \in TokenInputs, e \in Emails, f \in FullNames :
          update_user_info(t, UserUpdate(e, f))
    \/ \E t \in TokenInputs : delete_user_account(t)
    \/ \E t \in TokenInputs : get_all_users(t)
    \/ \E t \in TokenInputs : UserChat(t)
    \/ \E t \in TokenInputs : get_models(t)
    \/ \E t \in TokenInputs : get_user_history(t)
    \/ \E t \in TokenInputs : clear_user_history(t)
    \/ Tick

NextUser ==
    \/ UserHandlers
    \/ SendResponse

SpecUser == Init /\ [][NextUser]_vars

\* The token service over a clock with fractions of a second: the clock is
\* read at the whole minutes and one tick after them
ClockSteps == {1, Minutes(1) - 1, Minutes(1)}

Advance(d) ==
    Idle /\ (
    /\ now + d <= Minutes(MaxMinutes)
    /\ d = 1 => now % Minutes(1) = 0
    /\ d = Minutes(1) - 1 => now % Minutes(1) = 1
    /\ now' = now + d
    /\ UNCHANGED <<db, chatHistory, issued, streams, resp, appendLog, nchats, ncalls, nempty>>
    )

NextToken ==
    \/ login_for_access_token(LoginRequest("root", "root123"))
    \/ \E t \in TokenInputs : get_user_info(t)
    \/ \E d \in ClockSteps : Advance(d)
    \/ SendResponse

SpecToken == Init /\ [][NextToken]_vars

\* The relay alone, for one user, with the fragments without content counted
RelayStep(s, skips, last) ==
    /\ generate_stream_response(s, skips, last)
    /\ nempty' = nempty + Len(skips)

RelayChat(token) ==
    chat(token, ChatRequest(<<ChatMessage("user", Question)>>, TRUE, model_name),
         UpstreamError, MaxChats)

NextRelay ==
    \/ login_for_access_token(LoginRequest("root", "root123"))
    \/ \E t \in ChatTokens : RelayChat(t)
    \/ \E s \in 1..MaxStreams, k \in SkipSeqs,
          l \in ContentChunks \cup {EndOfStream, UpstreamError} :
          RelayStep(s, k, l)
    \/ SendResponse

SpecRelay == Init /\ [][NextRelay]_vars

----------------------------------------------------------------------------
(* Helpers of the properties *)

RECURSIVE Concat(_)
Concat(fragments) ==
    IF fragments = <<>> THEN <<>>
    ELSE Head(fragments) \o Concat(Tail(fragments))

\* one finished=false event per fragment, in order
FragmentEvents(fragments) ==
    [i \in 1..Len(fragments) |-> StreamResponse(fragments[i], FALSE)]

Sentinel == StreamResponse(<<>>, TRUE)

Slots == 1..MaxStreams

\* the generator of slot s ran in this step
Ran(s) == streams[s].pc \in {"pending", "emitting"} /\ streams'[s] # streams[s]
              /\ streams'[s].pc # "cancelled"

\* every log but the one of username is what it was
OthersUnchanged(username) ==
    \A k \in (DOMAIN chatHistory \cup DOMAIN chatHistory') \ {username} :
        /\ k \in DOMAIN chatHistory
        /\ k \in DOMAIN chatHistory'
        /\ chatHistory'[k] = chatHistory[k]

Authenticated(token) ==
    /\ TokenDecodes(token, now)
    /\ token.sub \in DOMAIN db
    /\ ~db[token.sub].disabled

ChatStep(token) ==
    \E m \in MessageLists, b \in BOOLEAN, n \in Models, c \in Completions :
        chat(token, ChatRequest(m, b, n), c, MaxChats)

\* the messages appended to the log of username since it was created
Appended(username) ==
    IF username \in DOMAIN appendLog
    THEN [i \in 1..Len(appendLog[username]) |-> appendLog[username][i].msg]
    ELSE <<>>

----------------------------------------------------------------------------
(* Streaming relay *)

\* C1: a stream that delivered fragments f1..fn (n >= 1) and then ended normally
\* has produced exactly the n finished=false events of f1..fn, in order, then
\* the one finished=true sentinel with empty content, and nothing else.
C1_FragmentsThenSentinel ==
    \A s \in Slots :
        streams[s].up = "ended" /\ streams[s].received # <<>> =>
            streams[s].events = FragmentEvents(streams[s].received) \o <<Sentinel>>

\* C2: the step in which the upstream ends normally with a non-empty
\* accumulator appends exactly one message to the log of the stream's user:
\* role assistant, content the concatenation of the fragments in arrival order.
C2_OneAssistantMessage ==
    [][\A s \in Slots :
          Ran(s) /\ streams'[s].up = "ended" /\ streams'[s].received # <<>> =>
              /\ streams[s].user \in DOMAIN chatHistory
              /\ streams[s].user \in DOMAIN chatHistory'
              /\ chatHistory'[streams[s].user] =
                     Append(chatHistory[streams[s].user],
                            ChatMessage("assistant", Concat(streams'[s].received)))
      ]_vars

\* C3: when the upstream raises after k >= 0 fragments, the relay has emitted
\* the k finished=false events and emits exactly one error event with
\* finished=true; no step of that generator, up to and including the failing
\* one, changes the conversation logs, so the relay leaves the user's log as
\* the request handler left it.
C3_ErrorEventNoAppend ==
    [][\A s \in Slots :
          /\ Ran(s) /\ streams'[s].up # "ended" =>
                 chatHistory' = chatHistory /\ ~streams'[s].appended
          /\ Ran(s) /\ streams'[s].up = "raised" =>
                 /\ streams[s].events = FragmentEvents(streams'[s].received)
                 /\ streams'[s].events = Append(streams[s].events, ErrorResponse)
                 /\ ErrorResponse.finished
                 /\ streams'[s].pc = "failed"
      ]_vars

C3_Witness ==
    \E s \in Slots :
        /\ streams[s].up = "raised"
        /\ Len(streams[s].received) = 2
        /\ streams[s].user \in DOMAIN chatHistory
        /\ Len(chatHistory[streams[s].user]) = 1

\* C4: every generator that has returned without being cancelled has sent, as
\* its last event, exactly one event with finished=true.
C4_TerminalEvent ==
    \A s \in Slots :
        streams[s].pc \in {"done", "failed"} =>
            /\ streams[s].events # <<>>
            /\ streams[s].events[Len(streams[s].events)].finished
            /\ \A i \in 1..(Len(streams[s].events) - 1) : ~streams[s].events[i].finished

\* C5: every message with role assistant in a log was appended by the relay
\* or by the non-streaming branch on a completion call that did not fail.
C5_AssistantFromCompletedCall ==
    \A u \in DOMAIN chatHistory :
        \A i \in 1..Len(chatHistory[u]) :
            chatHistory[u][i].role = "assistant" =>
                /\ u \in DOMAIN appendLog
                /\ i <= Len(appendLog[u])
                /\ appendLog[u][i].by \in {"relay", "reply"}

\* a request handled in this step with this token is a chat, history or clear
ChatRouterStep(token) ==
    /\ resp'.op \in {"chat", "history", "clear"}
    /\ ChatStep(token) \/ get_user_history(token) \/ clear_user_history(token)

\* what C6 allows a step on behalf of username to do
OwnLogOnly(username) ==
    /\ OthersUnchanged(username)
    /\ \A s \in Slots : streams'[s] # streams[s] /\ streams[s].pc = "free" =>
           streams'[s].user = username
    /\ resp'.op = "history" /\ resp'.status = 200 =>
           resp'.body = IF username \in DOMAIN chatHistory
                        THEN chatHistory[username] ELSE <<>>

\* C6: a chat, history or clear request authenticated as u, and every step of
\* a generator started by a chat request of u, leaves the log of every other
\* username as it was; the stream a chat request starts is one of u, and the
\* history returned is the log of u.
C6_OwnLogOnly ==
    [][/\ \A t \in TokenInputs :
              Authenticated(t) => (OwnLogOnly(t.sub) \/ ~ChatRouterStep(t))
       /\ \A s \in Slots : Ran(s) => OthersUnchanged(streams[s].user)
      ]_vars

C6_Witness ==
    /\ \E s \in Slots : streams[s].appended /\ streams[s].user = "alice"
    /\ "root" \in DOMAIN chatHistory
    /\ "alice" \in DOMAIN chatHistory
    /\ Len(chatHistory["root"]) = 1
    /\ Len(chatHistory["alice"]) = 2

\* C7: get_user_history returns the messages appended to the user's log, user
\* turns and assistant messages, in the order of their appends; after
\* clear_user_history it returns the empty sequence.
C7_HistoryInAppendOrder ==
    [][\A t \in TokenInputs :
          /\ resp'.op = "history" /\ Authenticated(t) /\ get_user_history(t) =>
                 resp'.status = 200 /\ resp'.body = Appended(t.sub)
          /\ resp'.op = "clear" /\ Authenticated(t) /\ clear_user_history(t) =>
                 HistoryOf(chatHistory', t.sub) = <<>>
      ]_vars

C7_Witness ==
    /\ resp.op = "history"
    /\ resp.status = 200
    /\ Len(resp.body) = 3
    /\ \E u \in DOMAIN appendLog :
          /\ Appended(u) = resp.body
          /\ \E i \in 1..Len(appendLog[u]) : appendLog[u][i].by = "relay"
          /\ \E i \in 1..Len(appendLog[u]) : appendLog[u][i].by = "turn"

----------------------------------------------------------------------------
(* Auth guard and identity store *)

\* a request handled in this step with this token is one of the protected
\* operations
ProtectedStep(token) ==
    \/ logout(token)
    \/ get_user_info(token)
    \/ \E e \in Emails, f \in FullNames : update_user_info(token, UserUpdate(e, f))
    \/ delete_user_account(token)
    \/ get_all_users(token)
    \/ UserChat(token)
    \/ get_models(token)
    \/ get_user_history(token)
    \/ clear_user_history(token)

\* C8: a protected operation requested with a validly signed, unexpired token
\* whose account is disabled is rejected with status 400 and changes neither
\* the identity store, the conversation logs, the streams nor the tokens.
C8_DisabledRejected ==
    [][\A t \in TokenInputs :
          /\ TokenDecodes(t, now)
          /\ t.sub \in DOMAIN db /\ db[t.sub].disabled
          /\ resp' # NoResponse
          /\ ProtectedStep(t)
          => (resp'.status = 400 /\ UNCHANGED <<db, chatHistory, issued, streams>>)
      ]_vars

C8_Witness ==
    /\ resp.op = "chat"
    /\ resp.status = 400
    /\ \E t \in issued : TokenDecodes(t, now) /\ db[t.sub].disabled

\* C9: a signup whose username is not in the store succeeds, and after it a
\* login with the same username and password authenticates and gets a token
\* that decodes to that username; every token a login returns decodes to the
\* username of the login.
C9_SignupThenLogin ==
    [][/\ \A u \in Usernames, p \in Passwords, e \in Emails :
              ~HasUser(db, u) /\ sign_up(UserSignUp(u, p, e, None)) =>
                  /\ resp'.status = 200
                  /\ authenticate_user(db', u, p)
                  /\ TokenDecodes(LoginToken(db', now', u), now')
                  /\ decode_token(LoginToken(db', now', u)).sub = u
       /\ \A u \in Keys, p \in Passwords :
              /\ resp'.op = "token" /\ resp'.status = 200
              /\ login_for_access_token(LoginRequest(u, p))
              => (TokenDecodes(resp'.body, now') /\ decode_token(resp'.body).sub = u)
      ]_vars

C9_Witness ==
    /\ resp.op = "token"
    /\ resp.status = 200
    /\ resp.body.sub = "alice"
    /\ db["alice"].hashed_password = get_password_hash("pw")
    /\ db["alice"].full_name = None

\* C10: an update request authenticated as u changes nothing but the email and
\* full_name of the record under key u: no key is added, no other record
\* changes, and the record's username, password digest and disabled flag stay.
C10_UpdateFrame ==
    [][\A t \in TokenInputs, e \in Emails, f \in FullNames :
          /\ Authenticated(t)
          /\ resp'.op = "update"
          /\ update_user_info(t, UserUpdate(e, f))
          => /\ DOMAIN db' = DOMAIN db
             /\ \A k \in DOMAIN db \ {t.sub} : db'[k] = db[k]
             /\ db'[t.sub].username = db[t.sub].username
             /\ db'[t.sub].hashed_password = db[t.sub].hashed_password
             /\ db'[t.sub].disabled = db[t.sub].disabled
      ]_vars

----------------------------------------------------------------------------
(* Token service *)

\* the times after the issue of a token at which it is presented
LifetimeOffsets ==
    {0, Minutes(access_token_expire_minutes - 1),
     Minutes(access_token_expire_minutes) - 1,
     Minutes(access_token_expire_minutes) + 1,
     Minutes(access_token_expire_minutes + 1)}

\* C11: a token that login issues at time T decodes at every time before
\* T + 30 minutes (T + 29 minutes among them) and does not decode at any time
\* after T + 30 minutes (T + 31 minutes among them).
C11_TokenLifetime ==
    [][resp'.op = "token" /\ resp'.status = 200 =>
          \A d \in LifetimeOffsets :
              /\ d < Minutes(access_token_expire_minutes) =>
                     TokenDecodes(resp'.body, now + d)
              /\ d > Minutes(access_token_expire_minutes) =>
                     ~TokenDecodes(resp'.body, now + d)
      ]_vars

----------------------------------------------------------------------------
(* Identity store: signup and deletion *)

SignupStep(u) ==
    /\ resp'.op = "signup"
    /\ \E p \in Passwords, e \in Emails : sign_up(UserSignUp(u, p, e, None))

\* C12: a signup for a username that is in the store, active or soft-deleted,
\* fails with 400 and leaves the store as it was; a signup succeeds only for a
\* username that is not in the store and puts it there, and a username in the
\* store stays in it, so of the signups for one username at most one succeeds.
C12_SignupOncePerUsername ==
    [][\A u \in Usernames :
          /\ SignupStep(u) /\ u \in DOMAIN db =>
                 resp'.status = 400 /\ db' = db
          /\ SignupStep(u) /\ resp'.status = 200 =>
                 u \notin DOMAIN db /\ u \in DOMAIN db'
          /\ u \in DOMAIN db => u \in DOMAIN db'
      ]_vars

C12_Witness ==
    /\ resp.op = "signup"
    /\ resp.status = 400
    /\ "alice" \in DOMAIN db
    /\ db["alice"].disabled
    /\ db["alice"].hashed_password = get_password_hash("pw")

\* C13: delete_user_account of u leaves the record under key u in the store
\* with disabled = TRUE and nothing else of it changed, list_user still has
\* it and get_all_users returns every record of the store, disabled ones too;
\* no step removes a key from the store.
C13_SoftDeleteOnly ==
    [][/\ \A t \in TokenInputs :
              Authenticated(t) /\ resp'.op = "del" /\ delete_user_account(t) =>
                  /\ resp'.status = 200
                  /\ t.sub \in DOMAIN db'
                  /\ db'[t.sub] = [db[t.sub] EXCEPT !.disabled = TRUE]
                  /\ t.sub \in DOMAIN list_user(db')
       /\ resp'.op = "all" /\ resp'.status = 200 =>
              /\ DOMAIN resp'.body = DOMAIN db
              /\ \A k \in DOMAIN db : resp'.body[k] = User(db[k])
       /\ DOMAIN db \subseteq DOMAIN db'
      ]_vars

C13_Witness ==
    /\ resp.op = "all"
    /\ resp.status = 200
    /\ \E k \in DOMAIN resp.body : resp.body[k].disabled

----------------------------------------------------------------------------
(* Chat endpoint: errors and upstream calls *)

\* C14: a chat request whose token is missing, badly signed, expired, signed
\* for an unknown username or for a disabled account is answered 401 or 400
\* and has no effect: no log is created or appended to, no stream is started
\* and no upstream completion call is made.
C14_AuthFailureNoEffect ==
    [][\A t \in TokenInputs :
          ~Authenticated(t) /\ resp'.op = "chat" /\ UserChat(t) =>
              /\ resp'.status \in {400, 401}
              /\ UNCHANGED <<chatHistory, appendLog, streams, ncalls, nchats, db>>
      ]_vars

C14_Witness ==
    /\ resp.op = "chat"
    /\ resp.status = 401
    /\ issued # {}
    /\ \A t \in issued : ~TokenDecodes(t, now) /\ ~db[t.sub].disabled
    /\ chatHistory = <<>>
    /\ ncalls = 0

NoChoices == Chunk("nochoices", <<>>)

\* the log of username after the handler appended the last message of the
\* request to it and nothing else
WithTurn(h, username, messages) ==
    Append(HistoryOf(h, username),
           ChatMessage(messages[Len(messages)].role, messages[Len(messages)].content))

\* C15: a non-streaming chat request whose completion has no choices is
\* answered 500 with the empty-completion detail, and the log gets the
\* request's last message and no message made from the completion; a
\* completion with empty content is answered 200 and its empty assistant
\* message is appended.
C15_EmptyCompletion ==
    [][\A t \in ChatTokens, m \in MessageLists \ {<<>>} :
          /\ Authenticated(t) /\ resp'.op = "chat"
          /\ chat(t, ChatRequest(m, FALSE, model_name), NoChoices, MaxChats)
          => /\ resp'.status = 500
             /\ resp'.body = "EmptyCompletion"
             /\ chatHistory'[t.sub] = WithTurn(chatHistory, t.sub, m)
             /\ ~chat(t, ChatRequest(m, FALSE, model_name), Chunk("text", <<>>), MaxChats)
             /\ ~chat(t, ChatRequest(m, FALSE, model_name), Chunk("none", <<>>), MaxChats)
      ]_vars

C15_Witness ==
    /\ resp.op = "chat"
    /\ resp.status = 500
    /\ resp.body = "EmptyCompletion"
    /\ ncalls = 1
    /\ "root" \in DOMAIN chatHistory
    /\ chatHistory["root"] = <<ChatMessage("user", Question)>>

\* C16: closing a generator that has emitted any number of fragments and no
\* terminal event changes no log and emits nothing, and a closed generator
\* takes no further step: it receives no more fragments, makes no call and
\* appends nothing.
C16_CancelNoCommit ==
    [][\A s \in Slots :
          /\ streams[s].pc # "cancelled" /\ streams'[s].pc = "cancelled" =>
                 /\ chatHistory' = chatHistory
                 /\ streams'[s] = [streams[s] EXCEPT !.pc = "cancelled"]
                 /\ ~streams'[s].appended
                 /\ ncalls' = ncalls
          /\ streams[s].pc = "cancelled" =>
                 streams'[s] = streams[s] /\ ~streams[s].appended
      ]_vars

C16_Witness ==
    \E s \in Slots :
        /\ streams[s].pc = "cancelled"
        /\ streams[s].received = <<F1>>
        /\ streams[s].user \in DOMAIN chatHistory
        /\ chatHistory[streams[s].user] = <<ChatMessage("user", Question)>>
        /\ resp = NoResponse

\* C17: an authenticated chat request that carries a message makes exactly
\* one upstream completion call: the non-streaming handler makes it in its own
\* step, a generator that ran to its end has made one, and none makes a second.
C17_OneUpstreamCall ==
    [][/\ \A t \in ChatTokens, m \in MessageLists \ {<<>>}, n \in Models :
              /\ Authenticated(t) /\ resp'.op = "chat"
              /\ \E c \in Completions : chat(t, ChatRequest(m, FALSE, n), c, MaxChats)
              => ncalls' = ncalls + 1
       /\ \A s \in Slots :
              /\ Ran(s) /\ streams'[s].pc \in {"done", "failed"} =>
                     streams'[s].calls = 1
              /\ streams'[s].calls <= 1
      ]_vars

----------------------------------------------------------------------------
(* Conversation store under concurrent requests *)

\* a completion that makes the non-streaming branch answer with response r
CompletionOf(r) ==
    IF r.status = 200 THEN Chunk("text", r.body.content)
    ELSE IF r.body = "EmptyCompletion" THEN NoChoices
    ELSE UpstreamError

\* this step is the chat handler run with this token on a request whose
\* messages are m
ChatTurnStep(token, m) ==
    /\ resp'.op = "chat"
    /\ \E n \in Models :
           IF streams' # streams
           THEN chat(token, ChatRequest(m, TRUE, n), UpstreamError, MaxChats)
           ELSE chat(token, ChatRequest(m, FALSE, n), CompletionOf(resp'), MaxChats)

\* C18: whatever the interleaving of chat requests and generators, a log holds
\* every message appended to it, in the order of the appends: a chat request
\* appends its turn to its user's log, whatever streams of this or of another
\* user are in flight, and a generator that appends adds its message at the
\* end of the log as it stands then.
C18_NoLostAppend ==
    [][/\ \A u \in DOMAIN chatHistory : HistoryOf(chatHistory, u) = Appended(u)
       /\ \A t \in ChatTokens, m \in MessageLists \ {<<>>} :
              Authenticated(t) /\ ChatTurnStep(t, m)
              => /\ t.sub \in DOMAIN chatHistory'
                 /\ Len(chatHistory'[t.sub]) > Len(HistoryOf(chatHistory, t.sub))
                 /\ SubSeq(chatHistory'[t.sub], 1, Len(HistoryOf(chatHistory, t.sub)) + 1)
                        = WithTurn(chatHistory, t.sub, m)
       /\ \A s \in Slots :
              Ran(s) /\ streams'[s].appended =>
                  chatHistory' = [chatHistory EXCEPT ![streams[s].user] =
                      Append(@, ChatMessage("assistant", streams'[s].acc))]
      ]_vars

C18_Witness ==
    /\ \A s \in Slots : streams[s].appended /\ streams[s].user = "root"
    /\ "root" \in DOMAIN chatHistory
    /\ Len(chatHistory["root"]) = 4
    /\ chatHistory["root"][1].role = "user"
    /\ chatHistory["root"][2].role = "user"
    /\ chatHistory["root"][3].content = F1 \o F2
    /\ chatHistory["root"][4].content = F2 \o F1

----------------------------------------------------------------------------
(* Logout *)

\* C19: a logout with a good token is answered 200 and changes neither the
\* identity store, the conversation logs, the streams nor the issued tokens;
\* every token that passed the auth guard before it passes it after it.
C19_LogoutNoEffect ==
    [][\A t \in TokenInputs :
          Authenticated(t) /\ resp'.op = "logout" /\ logout(t) =>
              /\ resp'.status = 200
              /\ UNCHANGED <<db, chatHistory, issued, streams, now>>
              /\ \A u \in TokenInputs :
                     /\ TokenDecodes(u, now) => TokenDecodes(u, now')
                     /\ Authenticated(u) =>
                            /\ u.sub \in DOMAIN db'
                            /\ ~db'[u.sub].disabled
      ]_vars

C19_Witness ==
    /\ resp.op = "logout"
    /\ resp.status = 200
    /\ resp.body = "alice"
    /\ \E t \in issued : t.sub = "alice" /\ Authenticated(t)
    /\ "alice" \in DOMAIN chatHistory

----------------------------------------------------------------------------
(* Clear-history during a stream *)

\* C20: the step in which a generator sees its upstream end normally with a
\* non-empty accumulator completes the stream, whether or not the user's
\* history was cleared since the request: the generator returns after the
\* sentinel, without an error event, and the assistant message is the last
\* message of the user's log.
C20_CompletedDespiteClear ==
    [][\A s \in Slots :
          Ran(s) /\ streams'[s].up = "ended" /\ streams'[s].acc # <<>> =>
              /\ streams'[s].pc = "done"
              /\ streams'[s].events = Append(streams[s].events, Sentinel)
              /\ streams[s].user \in DOMAIN chatHistory'
              /\ chatHistory'[streams[s].user] # <<>>
              /\ chatHistory'[streams[s].user][Len(chatHistory'[streams[s].user])]
                     = ChatMessage("assistant", streams'[s].acc)
      ]_vars

----------------------------------------------------------------------------
(* Order of the append and the terminal events *)

Emitted(s, event) == \E i \in 1..Len(streams[s].events) : streams[s].events[i] = event

\* C21: a stream whose sentinel has been emitted has appended its assistant
\* message, a stream that has appended has emitted no error event, and in the
\* step that emits the sentinel the message is the last of the user's log.
C21_AppendBeforeSentinel ==
    [][\A s \in Slots :
          /\ Emitted(s, Sentinel) => streams[s].appended
          /\ streams[s].appended => ~Emitted(s, ErrorResponse)
          /\ Ran(s) /\ streams'[s].events # streams[s].events
                /\ streams'[s].events[Len(streams'[s].events)] = Sentinel =>
                    /\ streams[s].user \in DOMAIN chatHistory'
                    /\ chatHistory'[streams[s].user] # <<>>
                    /\ chatHistory'[streams[s].user][Len(chatHistory'[streams[s].user])]
                           = ChatMessage("assistant", streams'[s].acc)
      ]_vars

C21_Witness ==
    \E s \in Slots :
        /\ streams[s].pc = "done"
        /\ streams[s].appended
        /\ streams[s].events = FragmentEvents(<<F2, F1>>) \o <<Sentinel>>
        /\ streams[s].user \in DOMAIN chatHistory
        /\ Len(chatHistory[streams[s].user]) = 2

----------------------------------------------------------------------------
(* Fragments without content *)

\* the events of a stream that are not terminal
DataEvents(events) == {i \in 1..Len(events) : ~events[i].finished}

\* C22: a run of the generator over fragments without content (no choices, a
\* delta with content None or empty) followed by a fragment with content, the
\* end of the stream or an error adds the content of that last fragment to
\* the accumulator and nothing else, and emits a finished=false event for it
\* and for no other fragment; so a stream has as many finished=false events as
\* it has received fragments with content.
C22_EmptyFragmentsSilent ==
    [][\A s \in Slots :
          /\ Cardinality(DataEvents(streams[s].events)) = Len(streams[s].received)
          /\ \A i \in 1..Len(streams[s].received) : streams[s].received[i] # <<>>
          /\ \A k \in SkipSeqs, l \in ContentChunks \cup {EndOfStream, UpstreamError} :
                 Ran(s) /\ RelayStep(s, k, l) =>
                     LET new == SubSeq(streams'[s].events, Len(streams[s].events) + 1,
                                       Len(streams'[s].events))
                     IN  IF l.kind = "text"
                         THEN /\ new = <<StreamResponse(l.content, FALSE)>>
                              /\ streams'[s].acc = streams[s].acc \o l.content
                         ELSE /\ DataEvents(new) = {}
                              /\ streams'[s].acc = streams[s].acc
      ]_vars

C22_Witness ==
    /\ nempty >= 3
    /\ \E s \in Slots :
          /\ streams[s].pc = "done"
          /\ streams[s].received = <<F1, F2>>
          /\ streams[s].events = FragmentEvents(<<F1, F2>>) \o <<Sentinel>>
          /\ streams[s].calls = 1
    /\ \A s \in Slots : streams[s].pc \in {"free", "done"}

----------------------------------------------------------------------------
(* The user turn when the upstream call fails *)

\* C23: a chat request that is answered 500 because the upstream call failed,
\* or that starts a stream, has appended to its user's log the last message
\* of the request and nothing else, and left the other logs alone; the steps
\* of a generator whose upstream call fails, the one emitting the error event
\* included, change no log, so the turn is not taken back.
C23_TurnKeptOnFailure ==
    [][/\ \A t \in ChatTokens, m \in MessageLists \ {<<>>} :
              /\ Authenticated(t) /\ ChatTurnStep(t, m)
              /\ resp'.status = 500 \/ streams' # streams
              => /\ t.sub \in DOMAIN chatHistory'
                 /\ chatHistory'[t.sub] = WithTurn(chatHistory, t.sub, m)
                 /\ OthersUnchanged(t.sub)
       /\ \A s \in Slots :
              Ran(s) /\ streams'[s].up = "raised" =>
                  /\ streams'[s].events[Len(streams'[s].events)] = ErrorResponse
                  /\ chatHistory' = chatHistory
      ]_vars

C23_Witness ==
    /\ resp.op = "chat"
    /\ resp.status = 500
    /\ resp.body = "Error"
    /\ ncalls = 2
    /\ \E s \in Slots : streams[s].up = "raised" /\ streams[s].user = "root"
    /\ "root" \in DOMAIN chatHistory
    /\ Len(chatHistory["root"]) = 2
    /\ \A i \in 1..2 : chatHistory["root"][i] = ChatMessage("user", Question)

----------------------------------------------------------------------------
(* Soft-delete over time *)

\* C24: a record that has disabled = TRUE has it in the next state too, under
\* the same username, whatever request is handled: once disabled, always
\* disabled.
C24_DisabledForever ==
    [][\A u \in DOMAIN db :
          db[u].disabled => u \in DOMAIN db' /\ db'[u].disabled
      ]_vars

====
